---- MODULE Spec2Model ----
(***************************************************************************)
(* DuooBot: the rule-based conversational form of conversation_flow.py     *)
(* (Conversation.reply and its helpers) behind the /chat and /reset        *)
(* handlers and the session registry of app.py.                            *)
(*                                                                         *)
(* Texts are TLA+ strings; Len, SubSeq and \o act on them character by     *)
(* character.  The source's non-breaking hyphen (U+2011, in "e-commerce",  *)
(* "E-Commerce", "1-2 Weeks") is written "-": like U+2011 it lies outside  *)
(* [a-z0-9\s], so normalize deletes it the same way.                       *)
(***************************************************************************)
EXTENDS Integers, Sequences, FiniteSets, TLC

\* F applied to the value of e, which is computed once
With(e, F(_)) == CHOOSE r \in {F(v) : v \in {e}} : TRUE

(***************************************************************************)
(* Python str helpers                                                      *)
(***************************************************************************)
None == "<None>"

UpperToLower ==
  [c \in {"A","B","C","D","E","F","G","H","I","J","K","L","M","N","O","P","Q",
          "R","S","T","U","V","W","X","Y","Z"} |->
     CASE c = "A" -> "a" [] c = "B" -> "b" [] c = "C" -> "c" [] c = "D" -> "d"
       [] c = "E" -> "e" [] c = "F" -> "f" [] c = "G" -> "g" [] c = "H" -> "h"
       [] c = "I" -> "i" [] c = "J" -> "j" [] c = "K" -> "k" [] c = "L" -> "l"
       [] c = "M" -> "m" [] c = "N" -> "n" [] c = "O" -> "o" [] c = "P" -> "p"
       [] c = "Q" -> "q" [] c = "R" -> "r" [] c = "S" -> "s" [] c = "T" -> "t"
       [] c = "U" -> "u" [] c = "V" -> "v" [] c = "W" -> "w" [] c = "X" -> "x"
       [] c = "Y" -> "y" [] c = "Z" -> "z"]

LowerAlnum ==
  {"a","b","c","d","e","f","g","h","i","j","k","l","m","n","o","p","q","r","s",
   "t","u","v","w","x","y","z","0","1","2","3","4","5","6","7","8","9"}

Whitespace == {" "}

CharAt(s, i) == SubSeq(s, i, i)

\* str.lower(), character by character
RECURSIVE lower_chars(_)
lower_chars(s) ==
  IF s = "" THEN ""
  ELSE LET c == CharAt(s, 1)
       IN (IF c \in DOMAIN UpperToLower THEN UpperToLower[c] ELSE c)
            \o lower_chars(SubSeq(s, 2, Len(s)))

\* str.strip(), character by character
RECURSIVE strip_chars(_)
strip_chars(s) ==
  IF s = "" THEN ""
  ELSE IF CharAt(s, 1) \in Whitespace THEN strip_chars(SubSeq(s, 2, Len(s)))
  ELSE IF CharAt(s, Len(s)) \in Whitespace THEN strip_chars(SubSeq(s, 1, Len(s) - 1))
  ELSE s

\* re.sub(r"[^a-z0-9\s]+", "", s)
RECURSIVE keep_alnum_space(_)
keep_alnum_space(s) ==
  IF s = "" THEN ""
  ELSE LET c == CharAt(s, 1)
       IN (IF c \in LowerAlnum \cup Whitespace THEN c ELSE "")
            \o keep_alnum_space(SubSeq(s, 2, Len(s)))

\* v in t (substring test), position by position
contains_chars(t, v) ==
  \E i \in 1..(Len(t) - Len(v) + 1) : SubSeq(t, i, i + Len(v) - 1) = v

\* s.split(" ")[0]
RECURSIVE first_word(_)
first_word(s) ==
  IF s = "" \/ CharAt(s, 1) = " " THEN ""
  ELSE CharAt(s, 1) \o first_word(SubSeq(s, 2, Len(s)))

normalize_chars(txt) == strip_chars(keep_alnum_space(lower_chars(txt)))

(***************************************************************************)
(* The texts the clients send (see ScriptAt below) and the other strings a *)
(* dialogue state holds.  lower, strip and normalize are tabulated once    *)
(* over them; any other string is converted character by character.        *)
(***************************************************************************)
AllScript ==
  {"hi", "Website", "App", "Automation", "Bot", "auto", "Landing", "Portfolio",
   "E-Commerce", "Corporate", "No", "Yes", "mybrand.com", "Start New Project"}

OffScript ==
  {"Login and Payments", "Dashboard", "1-2 Weeks", "aplication", "??",
   "hello again", "maybe"}

BlankTexts == {"", "  "}

\* a message that mentions the budget
BudgetTexts == {"My budget is low"}

ClientNames == {"", "Sandy Lee", "Sandy", "Guest"}

ClientTexts == AllScript \cup OffScript \cup BlankTexts \cup {"hello"}

StateStrings ==
  {"step", "name", "history", "project", "subtype", "q_index", "c_index",
   "has_domain", "domain_name", "cat_q_0", "cat_q_1", "cat_q_2", "cat_q_3",
   "common_q_0", "common_q_1", "common_q_2", "common_q_3", "common_q_4",
   "from", "text", "user", "True", "False", "<None>",
   "greeting", "project_type", "website_subtype", "category_questions",
   "common_questions", "domain_input", "summary", "done",
   "website", "app", "bot", "automation", "unknown",
   "landing", "portfolio", "e-commerce", "corporate"}

TabulatedStrings ==
  LET raw == ClientTexts \cup BudgetTexts \cup ClientNames \cup StateStrings
  IN raw \cup {lower_chars(t) : t \in raw} \cup {strip_chars(t) : t \in raw}
         \cup {normalize_chars(t) : t \in raw}

LowerTable == [t \in TabulatedStrings |-> lower_chars(t)]

StripTable == [t \in TabulatedStrings |-> strip_chars(t)]

NormalizeTable == [t \in TabulatedStrings |-> normalize_chars(t)]

\* the strings the code looks for in a text
Needles ==
  {"web", "site", "page", "store", "landing", "portfolio", "shop", "website",
   "application", "mobile", "android", "ios", "software", "app",
   "assistant", "chatbot", "automation", "bot", "auto", "script", "process",
   "ok", "sure", "yep", "alright", "yeah", "yes", "nope", "none", "nah", "never", "no",
   "start", "new", "again", "hello", "commerce", "corporate", "e-commerce",
   "login", "payment", "ai", "dashboard", "cms", "week"}

ContainsTable == [t \in TabulatedStrings |-> {v \in Needles : contains_chars(t, v)}]

contains(t, v) ==
  IF t \in DOMAIN ContainsTable /\ v \in Needles THEN v \in ContainsTable[t]
  ELSE contains_chars(t, v)

lower(s) == IF s \in DOMAIN LowerTable THEN LowerTable[s] ELSE lower_chars(s)

strip(s) == IF s \in DOMAIN StripTable THEN StripTable[s] ELSE strip_chars(s)

normalize(txt) ==
  IF txt \in DOMAIN NormalizeTable THEN NormalizeTable[txt] ELSE normalize_chars(txt)

(***************************************************************************)
(* difflib.SequenceMatcher(None, a, b).ratio(): no junk (isjunk is None,   *)
(* and autojunk only acts on b of 200 characters or more).                 *)
(***************************************************************************)
Min2(x, y) == IF x <= y THEN x ELSE y

\* the length of the longest common run of a from i and b from j
RECURSIVE common_run(_, _, _, _)
common_run(a, b, i, j) ==
  IF i > Len(a) \/ j > Len(b) THEN 0
  ELSE IF CharAt(a, i) # CharAt(b, j) THEN 0
  ELSE 1 + common_run(a, b, i + 1, j + 1)

\* <<i, j, k>> with a[i..i+k-1] = b[j..j+k-1] maximal from (i, j), k > 0
common_blocks(a, b) ==
  {m \in {<<i, j, common_run(a, b, i, j)>> : i \in 1..Len(a), j \in 1..Len(b)} :
     m[3] > 0}

\* m is at least as good a match as n: longer, or as long and earlier in a,
\* or as long, at the same place in a and earlier in b
block_before(m, n) ==
  \/ m[3] > n[3]
  \/ m[3] = n[3] /\ m[1] < n[1]
  \/ m[3] = n[3] /\ m[1] = n[1] /\ m[2] <= n[2]

\* find_longest_match over the whole of a and b: the longest block, the one
\* starting earliest in a, and of those the one starting earliest in b
\* (<<1, 1, 0>> when a and b share no character)
find_longest_match(a, b) ==
  With(common_blocks(a, b),
       LAMBDA blocks :
         IF blocks = {} THEN <<1, 1, 0>>
         ELSE CHOOSE m \in blocks : \A n \in blocks : block_before(m, n))

\* sum of the sizes of get_matching_blocks()
RECURSIVE matches(_, _)
matches(a, b) ==
  IF a = "" \/ b = "" THEN 0
  ELSE With(find_longest_match(a, b),
            LAMBDA m :
              IF m[3] = 0 THEN 0
              ELSE m[3]
                   + matches(SubSeq(a, 1, m[1] - 1), SubSeq(b, 1, m[2] - 1))
                   + matches(SubSeq(a, m[1] + m[3], Len(a)),
                             SubSeq(b, m[2] + m[3], Len(b))))

\* similarity(a, b) > 0.7, with ratio = 2.0 * matches / (len(a) + len(b))
\* (and 1.0 when both are empty)
similarity_above_threshold(a, b) ==
  IF Len(a) + Len(b) = 0 THEN TRUE
  ELSE 20 * matches(a, b) > 7 * (Len(a) + Len(b))

(***************************************************************************)
(* Simple NLP helpers                                                      *)
(***************************************************************************)
\* SYNONYMS, in the dict's insertion order
SynonymKeys == <<"website", "app", "bot", "automation", "yes", "no">>

SYNONYMS ==
  [website    |-> <<"web", "site", "page", "store", "landing", "portfolio", "shop">>,
   app        |-> <<"application", "mobile", "android", "ios", "software">>,
   bot        |-> <<"assistant", "chatbot", "automation">>,
   automation |-> <<"auto", "script", "process">>,
   yes        |-> <<"ok", "sure", "yep", "alright", "yeah">>,
   no         |-> <<"nope", "none", "nah", "never">>]

\* the test of conversation_flow.py line 37
category_match(v, t) == contains(t, v) \/ similarity_above_threshold(t, v)

\* any(match(v) for v in vals + [key])
key_matches(key, t) ==
  LET vs == SYNONYMS[key] \o <<key>>
  IN \E n \in 1..Len(vs) : category_match(vs[n], t)

\* the last matching key instead of the first
detect_category_last_match(text) ==
  LET t    == normalize(text)
      cand == {n \in 1..Len(SynonymKeys) :
                 /\ SynonymKeys[n] \notin {"yes", "no"}
                 /\ key_matches(SynonymKeys[n], t)}
  IN IF cand = {} THEN "unknown"
     ELSE SynonymKeys[CHOOSE n \in cand : \A m \in cand : n >= m]

detect_category(text) ==
  LET t    == normalize(text)
      cand == {n \in 1..Len(SynonymKeys) :
                 /\ SynonymKeys[n] \notin {"yes", "no"}
                 /\ key_matches(SynonymKeys[n], t)}
  IN IF cand = {} THEN "unknown"
     ELSE SynonymKeys[CHOOSE n \in cand : \A m \in cand : n <= m]

yes_no_matches(k, t) ==
  LET vs == SYNONYMS[k] \o <<k>>
  IN \E n \in 1..Len(vs) : contains(t, vs[n])

\* the "no" list examined before the "yes" list
detect_yes_no_no_first(text) ==
  LET t == normalize(text)
  IN IF yes_no_matches("no", t) THEN "no"
     ELSE IF yes_no_matches("yes", t) THEN "yes"
     ELSE None

detect_yes_no(text) ==
  LET t == normalize(text)
  IN IF yes_no_matches("yes", t) THEN "yes"
     ELSE IF yes_no_matches("no", t) THEN "no"
     ELSE None

\* detect_category tabulated once over the same strings
CategoryTable ==
  [t \in TabulatedStrings |-> detect_category(t)]

category_of(text) ==
  IF text \in DOMAIN CategoryTable THEN CategoryTable[text] ELSE detect_category(text)

(***************************************************************************)
(* Python dict helpers: a dict is a function whose DOMAIN is its key set   *)
(***************************************************************************)
Has(d, k) == k \in DOMAIN d

Get(d, k, default) == IF k \in DOMAIN d THEN d[k] ELSE default

Put(d, k, v) == (k :> v) @@ d

\* str(n) for the indices the dialogue uses (every index stays below 10)
str_int(n) ==
  CASE n = 0 -> "0" [] n = 1 -> "1" [] n = 2 -> "2" [] n = 3 -> "3"
    [] n = 4 -> "4" [] n = 5 -> "5" [] n = 6 -> "6" [] n = 7 -> "7"
    [] n = 8 -> "8" [] n = 9 -> "9"

(***************************************************************************)
(* Structured question bank                                                *)
(***************************************************************************)
Q(q, options) == [q |-> q, options |-> options]

YesNoOptions == <<"Yes", "No">>

WebsiteTree ==
  [y \in {"landing", "portfolio", "e-commerce", "corporate"} |->
     CASE y = "landing" ->
            <<Q("What kind of landing page are you planning?",
                <<"Single Page", "Multi-page", "Promo/Product">>),
              Q("Do you need form integrations (lead collection)?", YesNoOptions),
              Q("Goal of the page?", <<"Sales", "Newsletter", "Signup", "Event">>)>>
       [] y = "portfolio" ->
            <<Q("For business or personal brand?", <<"Business", "Personal", "Agency">>),
              Q("Include a blog or case studies?", YesNoOptions),
              Q("Upload new projects manually or via CMS?", <<"Manual", "CMS", "API">>)>>
       [] y = "e-commerce" ->
            <<Q("Expected number of products?", <<"1-50", "50-500", "500+">>),
              Q("Preferred payment gateway?", <<"Stripe", "Razorpay", "PayPal", "Other">>),
              Q("Inventory management integration?", YesNoOptions)>>
       [] y = "corporate" ->
            <<Q("Internal employee/intranet portal needed?", YesNoOptions),
              Q("Careers section with job posts?", YesNoOptions),
              Q("Multi-language support?", YesNoOptions)>>]

QUESTION_TREE ==
  [website    |-> WebsiteTree,
   app        |-> <<Q("Which platforms are you targeting?", <<"Android", "iOS", "Web", "All">>),
                    Q("Who will use this app?", <<"Customers", "Staff", "Partners">>),
                    Q("Key features?",
                      <<"Login", "Payments", "Notifications", "AI", "Dashboard">>),
                    Q("Need backend admin panel?", YesNoOptions)>>,
   automation |-> <<Q("What process do you want automated?",
                      <<"Reports", "APIs", "Mailing", "Workflows", "Monitoring">>),
                    Q("Current tool or method used?", <<"Excel", "CRM", "ERP", "Manual">>),
                    Q("Goal of automation?",
                      <<"Save time", "Reduce errors", "Integrate systems">>),
                    Q("Trigger frequency?", <<"Daily", "Weekly", "On demand">>)>>,
   bot        |-> <<Q("What's the primary purpose of this bot?",
                      <<"Customer Support", "Lead Capture", "Internal FAQ",
                        "Booking Assistant">>),
                    Q("Preferred tone/personality?",
                      <<"Professional", "Friendly", "Playful">>),
                    Q("Where should it be deployed?",
                      <<"Website", "WhatsApp", "Telegram", "Slack">>)>>]

COMMON_FLOW ==
  <<Q("Who is your target audience?", <<>>),
    Q("What's the main goal?", <<"Sales", "Leads", "Branding", "Automation">>),
    Q("Do you already have a logo or branding assets?", YesNoOptions),
    Q("When are you hoping to launch your project?", <<"1-2 Weeks", "1 Month", "Flexible">>),
    Q("Do you already own a domain name?", YesNoOptions)>>

ProjectOptions == <<"Website", "App", "Automation", "Bot">>

RestartOptions == <<"Start New Project">>

RestartKeywords == {"start", "new", "again", "hello"}

\* the reply dict; its text is a tuple: the template, then the values
\* interpolated into it
ReplyDict(text, options) == [text |-> text, options |-> options]

(***************************************************************************)
(* Conversation: the result of a call is the state it leaves, the reply it *)
(* returns (None when it raises), the exception it raises (None when it    *)
(* returns), the number of save_lead_to_db calls it made and the number of *)
(* rows it committed to the leads table.                                   *)
(***************************************************************************)
Out(s, r, writes, rows) ==
  [state |-> s, reply |-> r, raised |-> None, lead_writes |-> writes, rows |-> rows]

Raise(s, exc, writes, rows) ==
  [state |-> s, reply |-> None, raised |-> exc, lead_writes |-> writes, rows |-> rows]

\* Conversation.__init__(state=None, user_name=name)
NewConversation(user_name) ==
  LET s0 == [step |-> "greeting"]
      s1 == IF user_name # "" THEN Put(s0, "name", first_word(user_name)) ELSE s0
  IN IF Has(s1, "history") THEN s1 ELSE Put(s1, "history", <<>>)

\* the strings str(self.state) is made of: the keys, the string values, the
\* entries of history and the printed booleans.  The printed integers hold
\* no letter, and the separators between the pieces (quotes, colons, commas,
\* braces) occur in none of the keywords looked for.
state_strings(s) ==
  LET strkeys == DOMAIN s \ {"history", "q_index", "c_index", "has_domain"}
      hist    == Get(s, "history", <<>>)
  IN DOMAIN s
       \cup {s[k] : k \in strkeys}
       \cup {hist[n].text : n \in 1..Len(hist)}
       \cup (IF hist = <<>> THEN {} ELSE {"from", "text", "user"})
       \cup (IF Has(s, "has_domain")
               THEN {IF s["has_domain"] THEN "True" ELSE "False"} ELSE {})

\* str(self.state).lower(), as the set of its lowered pieces
history_str(s) == {lower(f) : f \in state_strings(s)}

\* kw in history_str
in_history_str(pieces, kw) == \E f \in pieces : contains(f, kw)

\* int(base * 1.15) on the base prices of estimate_price_inr, in IEEE double
\* arithmetic: 50000 * 1.15 is 57499.99999999999, 12000 * 1.15 is
\* 13799.999999999998 and 25000 * 1.15 is 28749.999999999996
int_times_1_15(base) ==
  CASE base = 50000 -> 57499
    [] base = 12000 -> 13799
    [] base = 15000 -> 17250
    [] base = 25000 -> 28749
    [] base = 4000  -> 4600
    [] base = 8000  -> 9200

base_price(s) ==
  LET proj == Get(s, "project", "")
      sub  == Get(s, "subtype", "")
  IN IF proj = "app" THEN 50000
     ELSE IF proj = "bot" THEN 12000
     ELSE IF proj = "automation" THEN 15000
     ELSE IF contains(sub, "e-commerce") THEN 25000
     ELSE IF contains(sub, "landing") THEN 4000
     ELSE 8000

addons_of(pieces) ==
    (IF in_history_str(pieces, "login") THEN 1500 ELSE 0)
  + (IF in_history_str(pieces, "payment") THEN 2500 ELSE 0)
  + (IF in_history_str(pieces, "ai") THEN 4000 ELSE 0)
  + (IF in_history_str(pieces, "dashboard") THEN 3000 ELSE 0)
  + (IF in_history_str(pieces, "cms") THEN 5000 ELSE 0)

addons_price(s) == With(history_str(s), LAMBDA pieces : addons_of(pieces))

is_urgent(s) == contains(lower(Get(s, "common_q_3", "")), "week")

estimate_price_inr(s) ==
  LET base == base_price(s)
  IN (IF is_urgent(s) THEN int_times_1_15(base) ELSE base) + addons_price(s)

\* the values interpolated into the summary text (the project name before
\* .title())
project_summary(s, total) ==
  LET proj_name == IF Get(s, "subtype", None) \notin {None, ""}
                     THEN s["subtype"] ELSE Get(s, "project", None)
  IN <<Get(s, "name", "Client"), proj_name, Get(s, "common_q_0", "General"),
       Get(s, "common_q_1", "General"), Get(s, "domain_name", "")>>

\* the outcomes of the lead store: it works, or SessionLocal(), session.add
\* or session.commit raises
DbOutcomes == {"ok", "open_fails", "add_fails", "commit_fails"}

\* save_lead_to_db: <<exception it lets out, rows committed>>.  When
\* SessionLocal() raises, the except clause logs it and the finally clause
\* then calls close() on the unbound local `session`.
save_lead_to_db(s, db) ==
  CASE db = "ok"           -> <<None, 1>>
    [] db = "add_fails"    -> <<None, 0>>
    [] db = "commit_fails" -> <<None, 0>>
    [] db = "open_fails"   -> <<"UnboundLocalError", 0>>

final_summary_of(s, cost, db) ==
  LET summary == project_summary(s, cost)
      saved   == save_lead_to_db(s, db)
  IN IF saved[1] # None THEN Raise(s, saved[1], 1, saved[2])
     ELSE Out(Put(s, "step", "done"),
              ReplyDict(<<"summary">> \o summary \o <<cost>>, RestartOptions),
              1, saved[2])

\* called with self.state["step"] already set to "summary"
generate_final_summary(state, db) ==
  With(state, LAMBDA s :
    With(estimate_price_inr(s), LAMBDA cost : final_summary_of(s, cost, db)))

\* 1. Greeting; pick is random.choice's index into GREETINGS
NumGreetings == 3

greeting_step(s, pick) ==
  Out(Put(s, "step", "project_type"),
      ReplyDict(<<"greeting", pick, Get(s, "name", "friend")>>, ProjectOptions),
      0, 0)

\* 2. Project selection
project_type_step(s, low) ==
  LET category == category_of(low)
      s1       == Put(s, "project", category)
  IN IF category = "website"
       THEN Out(Put(s1, "step", "website_subtype"),
                ReplyDict(<<"Nice! What type of website are you planning?">>,
                          <<"Landing", "Portfolio", "E-Commerce", "Corporate">>),
                0, 0)
     ELSE IF category \in {"app", "automation", "bot"}
       THEN LET first_q == QUESTION_TREE[category][1]
            IN Out(Put(Put(s1, "step", "category_questions"), "q_index", 0),
                   ReplyDict(<<first_q.q>>, first_q.options), 0, 0)
     ELSE Out(s1, ReplyDict(<<"Could you clarify? (Website, App, Automation, Bot)">>,
                            ProjectOptions), 0, 0)

\* 3. Website subtype
website_subtype_of(low) ==
  IF contains(low, "landing") THEN "landing"
  ELSE IF contains(low, "portfolio") THEN "portfolio"
  ELSE IF contains(low, "commerce") THEN "e-commerce"
  ELSE IF contains(low, "corporate") THEN "corporate"
  ELSE "landing"

website_subtype_step(s, low) ==
  LET sub     == website_subtype_of(low)
      s1      == Put(Put(Put(s, "subtype", sub), "step", "category_questions"),
                     "q_index", 0)
      first_q == QUESTION_TREE["website"][sub][1]
  IN Out(s1, ReplyDict(<<first_q.q>>, first_q.options), 0, 0)

\* 4. Category-specific questions loop, from the locals cat, sub and idx it
\* has read (lines 183 to 185)
\* the answer stored under the index of the next question
category_questions_body_next_key(s, text, cat, sub, idx) ==
  LET next_idx == idx + 1
      s1       == Put(Put(s, "cat_q_" \o str_int(next_idx), text), "q_index", next_idx)
      known    == IF cat = "website" THEN sub \in DOMAIN QUESTION_TREE["website"]
                  ELSE cat \in DOMAIN QUESTION_TREE
      q_list   == IF cat = "website" THEN QUESTION_TREE["website"][sub]
                  ELSE QUESTION_TREE[cat]
  IN IF ~known THEN Raise(s1, "KeyError", 0, 0)
     ELSE IF next_idx < Len(q_list)
       THEN Out(s1, ReplyDict(<<q_list[next_idx + 1].q>>, q_list[next_idx + 1].options),
                0, 0)
     ELSE Out(Put(Put(s1, "step", "common_questions"), "c_index", 0),
              ReplyDict(<<COMMON_FLOW[1].q>>, COMMON_FLOW[1].options), 0, 0)

category_questions_body(s, text, cat, sub, idx) ==
  LET next_idx == idx + 1
      s1       == Put(Put(s, "cat_q_" \o str_int(idx), text), "q_index", next_idx)
      known    == IF cat = "website" THEN sub \in DOMAIN QUESTION_TREE["website"]
                  ELSE cat \in DOMAIN QUESTION_TREE
      q_list   == IF cat = "website" THEN QUESTION_TREE["website"][sub]
                  ELSE QUESTION_TREE[cat]
  IN IF ~known THEN Raise(s1, "KeyError", 0, 0)
     ELSE IF next_idx < Len(q_list)
       THEN Out(s1, ReplyDict(<<q_list[next_idx + 1].q>>, q_list[next_idx + 1].options),
                0, 0)
     ELSE Out(Put(Put(s1, "step", "common_questions"), "c_index", 0),
              ReplyDict(<<COMMON_FLOW[1].q>>, COMMON_FLOW[1].options), 0, 0)

\* the subtype read as self.state["subtype"] instead of .get("subtype")
category_questions_step_subtype_required(s, text) ==
  IF ~Has(s, "project") \/ ~Has(s, "subtype") THEN Raise(s, "KeyError", 0, 0)
  ELSE category_questions_body(s, text, s["project"], s["subtype"],
                               Get(s, "q_index", 0))

category_questions_step(s, text) ==
  IF ~Has(s, "project") THEN Raise(s, "KeyError", 0, 0)
  ELSE category_questions_body(s, text, s["project"], Get(s, "subtype", None),
                               Get(s, "q_index", 0))

\* 5. Common questions loop, from the local c_idx it has read (line 211)
DomainQuestion == 4

common_questions_body(s, text, low, c_idx, db) ==
  LET s1     == Put(s, "common_q_" \o str_int(c_idx), text)
      yn     == detect_yes_no(low)
      s2     == Put(s1, "has_domain", yn = "yes")
      s3     == Put(s1, "c_index", c_idx + 1)
      next_c == c_idx + 1
  IN IF c_idx = DomainQuestion
       THEN IF yn = "yes"
              THEN \* the one reply dict with no "options" key
                   Out(Put(s2, "step", "domain_input"),
                       [text |-> <<"Great! Please type your domain (e.g. mybrand.com).">>],
                       0, 0)
              ELSE generate_final_summary(Put(s2, "step", "summary"), db)
     ELSE IF next_c < Len(COMMON_FLOW)
       THEN Out(s3, ReplyDict(<<COMMON_FLOW[next_c + 1].q>>,
                              COMMON_FLOW[next_c + 1].options), 0, 0)
     ELSE generate_final_summary(Put(s3, "step", "summary"), db)

common_questions_step(s, text, low, db) ==
  common_questions_body(s, text, low, Get(s, "c_index", 0), db)

\* 6. Domain input
domain_input_step(s, text, db) ==
  generate_final_summary(Put(Put(s, "domain_name", text), "step", "summary"), db)

\* lines 131 to 133: the history append (self.state["history"] is a KeyError
\* when the key is missing)
reply_enter(s, text) ==
  Put(s, "history", Append(s["history"], [from |-> "user", text |-> strip(text)]))

has_restart_keyword(low) == \E k \in RestartKeywords : contains(low, k)

\* a restart that resets the step and the history of the old dict instead of
\* replacing the dict
restart_logic_keeps_answers(s, low, pick) ==
  IF has_restart_keyword(low)
    THEN greeting_step(reply_enter(Put(Put(s, "step", "greeting"), "history", <<>>),
                                   "hello"), pick)
  ELSE Out(s, ReplyDict(<<"Type 'Start New Project' to begin again">>, RestartOptions),
           0, 0)

\* a message that does not restart gets the summary again, lead write included
restart_logic_saves_again(s, low, pick) ==
  IF has_restart_keyword(low)
    THEN LET fresh == [step |-> "greeting", name |-> Get(s, "name", None),
                       history |-> <<>>]
         IN greeting_step(reply_enter(fresh, "hello"), pick)
  ELSE generate_final_summary(s, "ok")

\* Restart logic, reached from step "summary" (pass) and from every step
\* that is none of the six above.  self.reply("hello") runs on the new
\* state, whose step is "greeting".
restart_logic(s, low, pick) ==
  IF has_restart_keyword(low)
    THEN LET fresh == [step |-> "greeting", name |-> Get(s, "name", None),
                       history |-> <<>>]
         IN greeting_step(reply_enter(fresh, "hello"), pick)
  ELSE Out(s, ReplyDict(<<"Type 'Start New Project' to begin again">>, RestartOptions),
           0, 0)

\* the if/elif chain of reply on the local `step` read at line 131
reply_body(s, step, text, db, pick) ==
  LET low == normalize(text)
  IN CASE step = "greeting"           -> greeting_step(s, pick)
       [] step = "project_type"       -> project_type_step(s, low)
       [] step = "website_subtype"    -> website_subtype_step(s, low)
       [] step = "category_questions" -> category_questions_step(s, text)
       [] step = "common_questions"   -> common_questions_step(s, text, low, db)
       [] step = "domain_input"       -> domain_input_step(s, text, db)
       [] OTHER                       -> restart_logic(s, low, pick)

\* Conversation.reply(text)
reply(s, text, db, pick) ==
  IF ~Has(s, "history") THEN Raise(s, "KeyError", 0, 0)
  ELSE With(reply_enter(s, text),
            LAMBDA s1 : reply_body(s1, Get(s, "step", "greeting"), text, db, pick))

Steps ==
  {"greeting", "project_type", "website_subtype", "category_questions",
   "common_questions", "domain_input", "summary", "done"}

(***************************************************************************)
(* app.py: the session registry and the /chat and /reset handlers.         *)
(*                                                                         *)
(* sessions  the dict uid -> Conversation, as the sequence of its items in *)
(*           insertion order; an item holds the id of its Conversation     *)
(* heap      the live Conversation objects: object id -> self.state        *)
(* resp      the last request and its response.  The leads table is only   *)
(*           ever written, so the rows a request commits are part of       *)
(*           what resp records                                             *)
(* file      convo_cache.json: absent, the JSON text of the last snapshot,  *)
(*           or what a write that failed half-way left of it               *)
(* threads   the request threads of the server (app.run serves each        *)
(*           request on a thread of its own): the position of each in      *)
(*           chat() and the locals it holds.  They stay idle in the        *)
(*           specifications that handle one request at a time.             *)
(***************************************************************************)
VARIABLES sessions, heap, resp, file, threads

vars == <<sessions, heap, resp, file, threads>>

\* prune_sessions(limit=100); the model keeps a smaller registry
limit == 2

NoObject == 0

keys(ss) == [n \in 1..Len(ss) |-> ss[n].uid]

key_set(ss) == {ss[n].uid : n \in 1..Len(ss)}

\* sessions.get(uid)
sessions_get(ss, uid) ==
  IF uid \in key_set(ss)
    THEN ss[CHOOSE n \in 1..Len(ss) : ss[n].uid = uid].convo
  ELSE NoObject

\* sessions[uid] = convo: an existing key keeps its place, a new key goes last
sessions_set(ss, uid, convo) ==
  IF uid \in key_set(ss)
    THEN [n \in 1..Len(ss) |-> IF ss[n].uid = uid THEN [uid |-> uid, convo |-> convo]
                                ELSE ss[n]]
  ELSE Append(ss, [uid |-> uid, convo |-> convo])

\* sessions.clear() in place of the pop
sessions_pop_all(ss, uid) == <<>>

\* sessions.pop(uid, None)
sessions_pop(ss, uid) == SelectSeq(ss, LAMBDA item : item.uid # uid)

\* one key too few: [: len(sessions) - limit - 1]
prune_victims_one_short(ss) ==
  IF Len(ss) > limit THEN SubSeq(keys(ss), 1, Len(ss) - limit - 1) ELSE <<>>

\* the newest keys instead of the oldest: [limit :]
prune_victims_newest(ss) ==
  IF Len(ss) > limit THEN SubSeq(keys(ss), limit + 1, Len(ss)) ELSE <<>>

\* list(sessions.keys())[: len(sessions) - limit] when len(sessions) > limit
prune_victims(ss) ==
  IF Len(ss) > limit THEN SubSeq(keys(ss), 1, Len(ss) - limit) ELSE <<>>

prune_sessions(ss) ==
  LET victims == prune_victims(ss)
  IN SelectSeq(ss, LAMBDA item : \A n \in 1..Len(victims) : victims[n] # item.uid)

\* one Conversation shared by every new user (a default built once)
new_object_shared(h) == IF DOMAIN h = {} THEN 1 ELSE CHOOSE n \in DOMAIN h : TRUE

\* a fresh object id
new_object(h) == CHOOSE n \in 1..(Cardinality(DOMAIN h) + 1) :
                   /\ n \notin DOMAIN h
                   /\ \A m \in 1..(n - 1) : m \in DOMAIN h

\* objects no longer referenced are reclaimed
collect(h, refs) == [o \in DOMAIN h \cap refs |-> h[o]]

session_refs(ss) == {ss[n].convo : n \in 1..Len(ss)}

\* the state of uid's session, or of the Conversation a first message creates
session_state(uid, name) ==
  IF uid \in key_set(sessions) THEN heap[sessions_get(sessions, uid)]
  ELSE NewConversation(name)

\* json.dump / json.load of one state dict: a JSON document is modelled as
\* the function from its keys to <<JSON type, value>> pairs
json_type(k) ==
  CASE k \in {"q_index", "c_index"} -> "number"
    [] k = "has_domain"              -> "boolean"
    [] k = "history"                 -> "array"
    [] OTHER                         -> "string"

json_dump_entry(e) == [k \in DOMAIN e |-> <<"string", e[k]>>]

json_load_entry(j) == [k \in DOMAIN j |-> j[k][2]]

json_dump_state(st) ==
  [k \in DOMAIN st |->
     IF k = "history"
       THEN <<"array", [n \in 1..Len(st[k]) |-> json_dump_entry(st[k][n])]>>
     ELSE IF json_type(k) = "string" /\ st[k] = None THEN <<"null">>
     ELSE <<json_type(k), st[k]>>]

json_load_state(j) ==
  [k \in DOMAIN j |->
     IF j[k][1] = "null" THEN None
     ELSE IF j[k][1] = "array"
       THEN [n \in 1..Len(j[k][2]) |-> json_load_entry(j[k][2][n])]
     ELSE j[k][2]]

\* items: the uid -> state pairs of the JSON object, in file order
FileAbsent == [exists |-> FALSE, parses |-> FALSE, items |-> <<>>]

FileTruncated == [exists |-> TRUE, parses |-> FALSE, items |-> <<>>]

FsOutcomes == {"ok", "open_fails", "write_fails"}

\* save_state_to_file(): {uid: c.state for uid, c in sessions.items()} dumped
\* over the old file; an exception is printed and swallowed
save_state_to_file(ss, h, old, fs) ==
  CASE fs = "open_fails"  -> old
    [] fs = "write_fails" -> FileTruncated
    [] OTHER ->
         [exists |-> TRUE, parses |-> TRUE,
          items |-> [n \in 1..Len(ss) |->
                       [uid |-> ss[n].uid, state |-> json_dump_state(h[ss[n].convo])]]]

\* Conversation(state=st): an empty dict is replaced by the default state,
\* and "history" is set when missing
conversation_from_state(st) ==
  LET st1 == IF DOMAIN st = {} THEN [step |-> "greeting"] ELSE st
  IN IF Has(st1, "history") THEN st1 ELSE Put(st1, "history", <<>>)

\* load_state_from_file() into an empty registry: no file, or a file that
\* does not parse, leaves it empty
loaded_items(f) == IF f.exists /\ f.parses THEN f.items ELSE <<>>

load_sessions(f) ==
  [n \in 1..Len(loaded_items(f)) |-> [uid |-> loaded_items(f)[n].uid, convo |-> n]]

load_heap(f) ==
  [n \in 1..Len(loaded_items(f)) |->
     conversation_from_state(json_load_state(loaded_items(f)[n].state))]

NoResponse ==
  [op |-> "none", uid |-> "", text |-> "", status |-> 0, reply |-> None,
   raised |-> None, from_step |-> "", to_step |-> "", lead_writes |-> 0,
   lead_outcome |-> None, rows |-> 0, evicted |-> {}, in_registry |-> FALSE]

\* (data.get(key) or "").strip() or default
field_or(value, default) == IF strip(value) = "" THEN default ELSE strip(value)

ServerError == [text |-> <<"Server error.">>]

\* the blank test made after lines 116 and 117 instead of before
ChatBlank_after_store(uid_in, guest, raw_text) ==
  /\ strip(raw_text) = ""
  /\ \E uid \in {field_or(uid_in, guest)} :
     \E found \in {sessions_get(sessions, uid)} :
     \E convo \in {IF found # NoObject THEN found ELSE new_object(heap)} :
       /\ heap' = IF found # NoObject THEN heap
                  ELSE Put(heap, convo, NewConversation("Guest"))
       /\ sessions' = sessions_set(sessions, uid, convo)
       /\ resp' = [NoResponse EXCEPT !.op = "chat", !.uid = uid, !.status = 400,
                                     !.reply = [text |-> <<"Please send some text!">>]]
  /\ UNCHANGED <<file, threads>>

\* POST /chat with a blank text: 400 before any session is touched
ChatBlank(uid_in, guest, raw_text) ==
  /\ strip(raw_text) = ""
  /\ resp' = [NoResponse EXCEPT !.op = "chat", !.uid = field_or(uid_in, guest),
                                !.status = 400,
                                !.reply = [text |-> <<"Please send some text!">>]]
  /\ UNCHANGED <<sessions, heap, file, threads>>

\* what /chat records of a reply r computed on the session state s0, with
\* the registry as stored before the prune and as pruned
chat_response(uid, text, s0, r, db, stored, pruned) ==
  [op |-> "chat", uid |-> uid, text |-> text, status |-> 200,
   reply |-> IF r.raised = None THEN r.reply ELSE ServerError,
   raised |-> r.raised,
   from_step |-> Get(s0, "step", "greeting"),
   to_step |-> Get(r.state, "step", "greeting"),
   lead_writes |-> r.lead_writes,
   lead_outcome |-> IF r.lead_writes > 0 THEN db ELSE None,
   rows |-> r.rows,
   evicted |-> {prune_victims(stored)[n] : n \in 1..Len(prune_victims(stored))},
   in_registry |-> uid \in key_set(pruned)]

\* POST /chat, one request handled from start to end
Chat(uid_in, guest, display_name, raw_text, db, pick, fs) ==
  \E text \in {strip(raw_text)}, uid \in {field_or(uid_in, guest)},
     name \in {field_or(display_name, "Guest")} :
    /\ text # ""
    /\ \E found \in {sessions_get(sessions, uid)} :
       \E convo \in {IF found # NoObject THEN found ELSE new_object(heap)} :
       \E heap1 \in {IF found # NoObject THEN heap
                     ELSE Put(heap, convo, NewConversation(name))} :
       \E stored \in {sessions_set(sessions, uid, convo)} :
       \E pruned \in {prune_sessions(stored)} :
       \E r \in {reply(heap1[convo], text, db, pick)} :
         /\ sessions' = pruned
         /\ heap' = collect(Put(heap1, convo, r.state), session_refs(pruned))
         /\ resp' = chat_response(uid, text, heap1[convo], r, db, stored, pruned)
         /\ file' = save_state_to_file(pruned, Put(heap1, convo, r.state), file, fs)
         /\ UNCHANGED threads

\* POST /reset
Reset(uid_in, fs) ==
  LET uid    == strip(uid_in)
      popped == sessions_pop(sessions, uid)
  IN /\ UNCHANGED threads
     /\ IF uid = ""
          THEN /\ resp' = [NoResponse EXCEPT !.op = "reset", !.status = 400]
               /\ UNCHANGED <<sessions, heap, file>>
        ELSE /\ sessions' = popped
             /\ heap' = collect(heap, session_refs(popped))
             /\ file' = save_state_to_file(popped, heap, file, fs)
             /\ resp' = [NoResponse EXCEPT !.op = "reset", !.uid = uid, !.status = 200]

(***************************************************************************)
(* The clients.  A dialogue follows the bot's script (an answer the bot    *)
(* expects at the current step) except for a bounded number of off-script  *)
(* messages, which are drawn from a set of texts chosen to exercise the    *)
(* classifier, the pricing keywords, the restart keywords and empty input. *)
(***************************************************************************)
ScriptAt(s) ==
  LET step == Get(s, "step", "greeting")
  IN CASE step = "greeting"           -> {"hi"}
       [] step = "project_type"       -> {"Website", "App", "Automation", "Bot", "auto"}
       [] step = "website_subtype"    -> {"Landing", "Portfolio", "E-Commerce", "Corporate"}
       [] step = "category_questions" -> {"No"}
       [] step = "common_questions"   ->
            IF Get(s, "c_index", 0) = DomainQuestion THEN {"Yes", "No"} ELSE {"No"}
       [] step = "domain_input"       -> {"mybrand.com"}
       [] OTHER                       -> {"Start New Project"}

\* the off-script messages among those a dialogue has recorded so far
off_script_count(s, extra) ==
  LET hist == Get(s, "history", <<>>)
  IN Cardinality({n \in 1..Len(hist) : hist[n].text \in extra})

\* the lead store is reached only from these two steps, and random.choice
\* only from the greeting (entered directly or through a restart): elsewhere
\* the outcome is not drawn
DbFor(s) ==
  IF Get(s, "step", "greeting") \in {"common_questions", "domain_input"}
    THEN DbOutcomes ELSE {"ok"}

PickFor(s) ==
  IF Get(s, "step", "greeting") \in
       {"project_type", "website_subtype", "category_questions", "common_questions",
        "domain_input"}
    THEN {1} ELSE 1..NumGreetings

\* a /chat request of one of the users `uids` (the empty uid stands for a
\* request without one, which gets a generated guest id), who follow the
\* `script` texts and send at most `budget` texts of `extra` per dialogue;
\* the snapshot write has one of the outcomes `fss`
ChatRequest(uids, guests, names, script, extra, budget, fss) ==
  \E uid \in uids, guest \in guests, name \in names :
    \E s \in {session_state(field_or(uid, guest), field_or(name, "Guest"))} :
      \E text \in (script \cap ScriptAt(s))
                     \cup (IF off_script_count(s, extra) < budget THEN extra ELSE {}) :
        \E db \in DbFor(s), pick \in PickFor(s), fs \in fss :
          Chat(uid, guest, name, text, db, pick, fs)

BlankRequest(uids, guests) ==
  \E uid \in uids, guest \in guests, text \in BlankTexts : ChatBlank(uid, guest, text)

ResetRequest(uids, fss) == \E uid \in uids, fs \in fss : Reset(uid, fs)

\* the process is restarted: the module is loaded again, sessions = {} and
\* load_state_from_file() (line 77)
Restart ==
  /\ sessions' = load_sessions(file)
  /\ heap' = load_heap(file)
  /\ resp' = [NoResponse EXCEPT !.op = "restart"]
  /\ UNCHANGED <<file, threads>>

ThreadIds == {1, 2}

IdleThread ==
  [pc |-> "idle", uid |-> "", name |-> "", text |-> "", convo |-> NoObject,
   step |-> "", cat |-> None, sub |-> None, idx |-> 0, victims |-> <<>>,
   status |-> 0, served |-> 0]

Init ==
  /\ sessions = <<>>
  /\ heap = <<>>
  /\ resp = NoResponse
  /\ file = FileAbsent
  /\ threads = [t \in ThreadIds |-> IdleThread]

\* the session of a user in the registry
conv(uid) == heap[sessions_get(sessions, uid)]

(***************************************************************************)
(* Spec: one visitor and the whole dialogue                                *)
(***************************************************************************)
\* off-script messages per dialogue
MaxOffScript == 1

\* the off-script messages sent: a feature answer that carries pricing
\* keywords, a text matching no keyword and a restart keyword
DialogueOffScript == {"Login and Payments", "??", "hello again"}

Next ==
  ChatRequest({"u1"}, {"guest_0"}, {"Sandy Lee"}, AllScript, DialogueOffScript,
              MaxOffScript, {"ok"})

Spec == Init /\ [][Next]_vars

(***************************************************************************)
(* SpecRegistry: more visitors than the registry holds, requests handled   *)
(* one at a time, each visitor on the shortest scripted dialogue           *)
(***************************************************************************)
RegistryUids == {"u1", "u2", "u3", ""}

RegistryScript == {"hi", "Bot"}

\* the snapshot write succeeds or fails half-way
RegistryFs == {"ok", "write_fails"}

NextRegistry ==
  \/ ChatRequest(RegistryUids, {"guest_0"}, {"Sandy Lee"}, RegistryScript, {}, 0,
                 RegistryFs)
  \/ BlankRequest(RegistryUids, {"guest_0"})
  \/ ResetRequest(RegistryUids, RegistryFs)
  \/ Restart

SpecRegistry == Init /\ [][NextRegistry]_vars

(***************************************************************************)
(* SpecPair: two visitors, to compare two dialogues                        *)
(***************************************************************************)
PairScript == {"hi", "Bot", "No"}

PairOffScript == {"Dashboard"}

MaxPairOffScript == 1

NextPair ==
  ChatRequest({"u1", "u2"}, {"guest_0"}, {"Sandy Lee"}, PairScript, PairOffScript,
              MaxPairOffScript, {"ok"})

SpecPair == Init /\ [][NextPair]_vars

(***************************************************************************)
(* SpecBudget: one visitor who mentions the budget during the dialogue     *)
(***************************************************************************)
\* messages mentioning the budget per dialogue
MaxBudgetTexts == 1

NextBudget ==
  ChatRequest({"u1"}, {"guest_0"}, {"Sandy Lee"}, AllScript, BudgetTexts,
              MaxBudgetTexts, {"ok"})

SpecBudget == Init /\ [][NextBudget]_vars

(***************************************************************************)
(* SpecThreads: /chat requests served on concurrent threads.  Nothing in   *)
(* app.py or conversation_flow.py takes a lock, so a thread may be         *)
(* preempted between any two statements of chat(), of prune_sessions() and *)
(* of Conversation.reply(); each action below is one such run of           *)
(* statements.                                                             *)
(***************************************************************************)
\* requests served in all
MaxRequests == 4

requests_served == threads[1].served + threads[2].served

\* the objects a thread still holds in its local `convo`
thread_refs(th) == {th[t].convo : t \in ThreadIds} \ {NoObject}

\* the thread returns its response
finish(th, t, status) ==
  [th EXCEPT ![t] = [IdleThread EXCEPT !.status = status,
                                       !.served = th[t].served + 1]]

\* lines 109 to 114: the request is parsed; its text is not blank
Receive(t, uid, name, text) ==
  /\ threads[t].pc = "idle"
  /\ requests_served < MaxRequests
  /\ strip(text) # ""
  /\ threads' = [threads EXCEPT ![t] =
                   [IdleThread EXCEPT !.pc = "lookup", !.uid = uid, !.name = name,
                                      !.text = strip(text),
                                      !.served = threads[t].served]]
  /\ UNCHANGED <<sessions, heap, resp, file>>

\* line 116: convo = sessions.get(uid) or Conversation(user_name=name)
Lookup(t) ==
  /\ threads[t].pc = "lookup"
  /\ \E found \in {sessions_get(sessions, threads[t].uid)} :
     \E convo \in {IF found # NoObject THEN found ELSE new_object(heap)} :
       /\ heap' = IF found # NoObject THEN heap
                  ELSE Put(heap, convo, NewConversation(threads[t].name))
       /\ threads' = [threads EXCEPT ![t].pc = "store", ![t].convo = convo]
  /\ UNCHANGED <<sessions, resp, file>>

\* line 117: sessions[uid] = convo
Store(t) ==
  /\ threads[t].pc = "store"
  /\ sessions' = sessions_set(sessions, threads[t].uid, threads[t].convo)
  /\ threads' = [threads EXCEPT ![t].pc = "prune"]
  /\ heap' = collect(heap, session_refs(sessions') \cup thread_refs(threads'))
  /\ UNCHANGED <<resp, file>>

\* lines 80 and 81: the test on len(sessions) and the list of keys to delete
PruneCheck(t) ==
  /\ threads[t].pc = "prune"
  /\ threads' = [threads EXCEPT
                   ![t].pc = IF prune_victims(sessions) # <<>> THEN "prune_del"
                             ELSE "reply",
                   ![t].victims = prune_victims(sessions)]
  /\ UNCHANGED <<sessions, heap, resp, file>>

\* line 82: del sessions[uid] for the next key of the list; a key that is no
\* longer there is a KeyError, raised outside the try of chat(): a 500
PruneDel(t) ==
  /\ threads[t].pc = "prune_del"
  /\ \E uid \in {Head(threads[t].victims)} :
       IF uid \in key_set(sessions)
         THEN /\ sessions' = sessions_pop(sessions, uid)
              /\ threads' = [threads EXCEPT
                               ![t].victims = Tail(threads[t].victims),
                               ![t].pc = IF Tail(threads[t].victims) = <<>>
                                         THEN "reply" ELSE "prune_del"]
       ELSE /\ sessions' = sessions
            /\ threads' = finish(threads, t, 500)
  /\ heap' = collect(heap, session_refs(sessions') \cup thread_refs(threads'))
  /\ UNCHANGED <<resp, file>>

\* lines 131 to 133 of reply: the local `step` and the history append
ReplyEnter(t) ==
  /\ threads[t].pc = "reply"
  /\ \E s \in {heap[threads[t].convo]} :
       /\ heap' = Put(heap, threads[t].convo, reply_enter(s, threads[t].text))
       /\ threads' = [threads EXCEPT ![t].pc = "reply_step",
                                     ![t].step = Get(s, "step", "greeting")]
  /\ UNCHANGED <<sessions, resp, file>>

\* lines 183 to 185: the locals cat, sub and idx of the category questions
ReplyLocals(t) ==
  /\ threads[t].pc = "reply_step"
  /\ threads[t].step = "category_questions"
  /\ \E s \in {heap[threads[t].convo]} :
       IF ~Has(s, "project")
         THEN threads' = finish(threads, t, 200)
       ELSE threads' = [threads EXCEPT ![t].pc = "reply_write",
                                       ![t].cat = s["project"],
                                       ![t].sub = Get(s, "subtype", None),
                                       ![t].idx = Get(s, "q_index", 0)]
  /\ heap' = collect(heap, session_refs(sessions) \cup thread_refs(threads'))
  /\ file' = IF threads'[t].pc = "idle"
               THEN save_state_to_file(sessions, heap, file, "ok") ELSE file
  /\ UNCHANGED <<sessions, resp>>

\* lines 188 to 207: the answer write, the index increment and the step
\* change of the category questions, from the locals read before; then the
\* snapshot of line 128
ReplyWrite(t) ==
  /\ threads[t].pc = "reply_write"
  /\ \E r \in {category_questions_body(heap[threads[t].convo], threads[t].text,
                                       threads[t].cat, threads[t].sub,
                                       threads[t].idx)} :
       /\ threads' = finish(threads, t, 200)
       /\ heap' = collect(Put(heap, threads[t].convo, r.state),
                          session_refs(sessions) \cup thread_refs(threads'))
       /\ file' = save_state_to_file(sessions, Put(heap, threads[t].convo, r.state),
                                     file, "ok")
  /\ UNCHANGED <<sessions, resp>>

\* the body of every other step, on the local `step`; then the snapshot of
\* line 128
ReplyStep(t, db, pick) ==
  /\ threads[t].pc = "reply_step"
  /\ threads[t].step # "category_questions"
  /\ \E r \in {reply_body(heap[threads[t].convo], threads[t].step, threads[t].text,
                          db, pick)} :
       /\ threads' = finish(threads, t, 200)
       /\ heap' = collect(Put(heap, threads[t].convo, r.state),
                          session_refs(sessions) \cup thread_refs(threads'))
       /\ file' = save_state_to_file(sessions, Put(heap, threads[t].convo, r.state),
                                     file, "ok")
  /\ UNCHANGED <<sessions, resp>>

ThreadUids == {"u1", "u2", "u3"}

ThreadTexts == {"hi", "Bot", "No"}

NextThreads ==
  \E t \in ThreadIds :
    \/ \E uid \in ThreadUids :
         \E text \in ThreadTexts \cap ScriptAt(session_state(uid, "Sandy Lee")) :
           Receive(t, uid, "Sandy Lee", text)
    \/ Lookup(t)
    \/ Store(t)
    \/ PruneCheck(t)
    \/ PruneDel(t)
    \/ ReplyEnter(t)
    \/ ReplyLocals(t)
    \/ ReplyWrite(t)
    \/ ReplyStep(t, "ok", 1)

SpecThreads == Init /\ [][NextThreads]_vars
(***************************************************************************)
(* SpecClassify: the two classifiers applied to free text: one word or two *)
(* words of a vocabulary of category names, synonyms, misspellings, yes/no *)
(* terms and words that match nothing                                      *)
(***************************************************************************)
ClassifyWords ==
  {"web", "Shop", "App", "software", "aplication", "bot", "chatbot", "Automation",
   "auto", "script", "websit", "ok", "yes", "sure", "no", "NOPE", "never", "xyz"}

ClassifyTexts ==
  ClassifyWords \cup {a \o " " \o b : a, b \in ClassifyWords} \cup {"", "??", "Yes!"}

InitClassify ==
  /\ sessions = <<>>
  /\ heap = <<>>
  /\ file = FileAbsent
  /\ threads = [t \in ThreadIds |-> IdleThread]
  /\ \E text \in ClassifyTexts : resp = [NoResponse EXCEPT !.op = "input", !.text = text]

\* detect_category(text) is called
DetectCategory ==
  /\ resp.op = "input"
  /\ resp' = [resp EXCEPT !.op = "detect_category", !.reply = detect_category(resp.text)]
  /\ UNCHANGED <<sessions, heap, file, threads>>

\* detect_yes_no(text) is called
DetectYesNo ==
  /\ resp.op = "input"
  /\ resp' = [resp EXCEPT !.op = "detect_yes_no", !.reply = detect_yes_no(resp.text)]
  /\ UNCHANGED <<sessions, heap, file, threads>>

NextClassify == DetectCategory \/ DetectYesNo

SpecClassify == InitClassify /\ [][NextClassify]_vars

(***************************************************************************)
(* SpecDomain: the domain probe, POST /domaincheck and                     *)
(* Conversation.check_domain.  The answer of the resolver to a well-formed *)
(* name is not the program's to choose: the name resolves, or the resolver *)
(* fails (no such name, or no answer in time), both failures raised as     *)
(* socket.gaierror.  A name with an empty label never reaches the          *)
(* resolver: encoding it for the lookup raises UnicodeError.               *)
(***************************************************************************)
DefaultTlds == <<".com", ".in", ".net", ".org", ".co">>

ResolverOutcomes == {"resolves", "gaierror_noname", "gaierror_again"}

GaiErrors == {"gaierror_noname", "gaierror_again"}

\* the idna encoding of the host name rejects an empty label
idna_fails(name) == contains_chars(name, "..") \/ CharAt(name, 1) = "."

\* socket.gethostbyname(name) when the resolver would answer `answer`
gethostbyname(name, answer) == IF idna_fails(name) THEN "UnicodeError" ELSE answer

check_domain(domain_name, answer) ==
  With(gethostbyname(domain_name, answer), LAMBDA got :
    IF got = "resolves" THEN [raised |-> None, value |-> FALSE]
    ELSE IF got \in GaiErrors THEN [raised |-> None, value |-> TRUE]
    ELSE [raised |-> got, value |-> None])

\* the loop of domain_check over tlds[n..]: the results so far, or the
\* exception that left the loop
RECURSIVE domain_results(_, _, _, _, _)
domain_results(base, tlds, answers, n, results) ==
  IF n > Len(tlds) THEN [raised |-> None, results |-> results]
  ELSE With(gethostbyname(base \o tlds[n], answers[n]), LAMBDA got :
         IF got \in GaiErrors \cup {"resolves"}
           THEN domain_results(base, tlds, answers, n + 1,
                  Append(results, [tld |-> tlds[n], domain |-> base \o tlds[n],
                                   available |-> got \in GaiErrors]))
         ELSE [raised |-> got, results |-> results])

\* POST /domaincheck with body {"domain": domain, "tlds": tlds_in}; the
\* resolver answers the n-th lookup with answers[n]
DomainCheck(domain, tlds_in) ==
  /\ \E base \in {lower(strip(domain))} :
     \E tlds \in {IF tlds_in = <<>> THEN DefaultTlds ELSE tlds_in} :
     \E answers \in [1..Len(tlds) -> ResolverOutcomes] :
       IF base = ""
         THEN resp' = [NoResponse EXCEPT !.op = "domaincheck", !.text = domain,
                         !.status = 400,
                         !.reply = [error |-> "Missing domain parameter"]]
       ELSE \E out \in {domain_results(base, tlds, answers, 1, <<>>)} :
              resp' = [base |-> base, tlds |-> tlds,
                       answers |-> answers] @@
                      [NoResponse EXCEPT !.op = "domaincheck", !.text = domain,
                         !.raised = out.raised,
                         !.status = IF out.raised = None THEN 200 ELSE 500,
                         !.reply = IF out.raised = None
                                     THEN [base |-> base, domains |-> out.results]
                                   ELSE [error |-> out.raised]]
  /\ UNCHANGED <<sessions, heap, file, threads>>

\* Conversation.check_domain(domain_name) is called
CheckDomain(domain_name, answer) ==
  /\ \E out \in {check_domain(domain_name, answer)} :
       resp' = [answers |-> <<answer>>] @@
               [NoResponse EXCEPT !.op = "check_domain", !.text = domain_name,
                                  !.raised = out.raised, !.reply = out.value]
  /\ UNCHANGED <<sessions, heap, file, threads>>

DomainBases == {"", "  ", "mybrand", " MyBrand ", "my..brand"}

DomainTlds == {<<>>, <<".com">>, <<".com", ".in">>, <<".com", "..in">>}

DomainNames == {"mybrand.com", "my..brand.com", ".com"}

NextDomain ==
  \/ \E domain \in DomainBases, tlds_in \in DomainTlds :
       DomainCheck(domain, tlds_in)
  \/ \E domain_name \in DomainNames, answer \in ResolverOutcomes :
       CheckDomain(domain_name, answer)

SpecDomain == Init /\ [][NextDomain]_vars

(***************************************************************************)
(* The properties                                                          *)
(***************************************************************************)
reply_is_total(s, text, pick) ==
  With(reply(s, text, "ok", pick),
       LAMBDA r : /\ r.raised = None
                  /\ "text" \in DOMAIN r.reply
                  /\ Get(r.state, "step", "greeting") \in Steps)

\* C1: Conversation.reply is total.  In every dialogue state reachable from
\* a fresh conversation, and for every next message (the empty string, blank
\* text and text matching no keyword included), reply returns a reply with a
\* text, leaves a state whose step is one of the eight steps, and raises
\* nothing, the lead store working.
C1_ReplyTotal ==
  \A uid \in key_set(sessions) :
    \A text \in ClientTexts, pick \in PickFor(conv(uid)) :
      reply_is_total(conv(uid), text, pick)

\* a message matching no keyword has been answered in the middle of the
\* category questions
C1_Witness ==
  /\ resp.op = "chat" /\ resp.text = "??" /\ resp.from_step = "category_questions"
  /\ resp.raised = None /\ resp.to_step \in Steps

restart_request(r) ==
  r.op = "chat" /\ r.from_step = "done" /\ has_restart_keyword(normalize(r.text))

\* C2, as amended: when the step is done and the message contains a restart
\* keyword, the resulting state holds exactly three keys: the step, which is
\* project_type (the greeting has been replayed on the cleared state), the
\* recorded name, unchanged, and a history holding the one entry of the
\* replayed "hello"; every answer key is absent.
C2_RestartClearsAnswers ==
  [][restart_request(resp') =>
       heap'[sessions_get(sessions', resp'.uid)]
         = [step |-> "project_type",
            name |-> Get(heap[sessions_get(sessions, resp'.uid)], "name", None),
            history |-> <<[from |-> "user", text |-> "hello"]>>]]_vars

\* C2 as stated: the restart leaves the step at the initial stage (greeting),
\* the name kept, the history empty and no other key
C2_RestartToInitialStage ==
  [][restart_request(resp') =>
       heap'[sessions_get(sessions', resp'.uid)]
         = [step |-> "greeting",
            name |-> Get(heap[sessions_get(sessions, resp'.uid)], "name", None),
            history |-> <<>>]]_vars

\* a finished dialogue has been restarted by its quick-reply button
C2_Witness ==
  /\ resp.op = "chat" /\ resp.from_step = "done" /\ resp.text = "Start New Project"
  /\ resp.to_step = "project_type"
  /\ DOMAIN conv(resp.uid) = {"step", "name", "history"}

\* C3: with requests handled one at a time, the registry holds at most
\* `limit` entries after every request.
C3_RegistryBounded == Len(sessions) <= limit

\* a request has made the registry overflow and entries were evicted
C3_Witness == resp.op = "chat" /\ resp.evicted # {} /\ Len(sessions) = limit

\* C4: a /chat request that is answered never evicts the session of its own
\* user: that session is in the registry when the request completes, and its
\* state is the one the reply was computed on.
C4_ServedSessionKept ==
  resp.op = "chat" /\ resp.status = 200 =>
    /\ resp.uid \notin resp.evicted
    /\ resp.in_registry
    /\ resp.uid \in key_set(sessions)
    /\ Get(conv(resp.uid), "step", "greeting") = resp.to_step

\* a request of a new user has evicted somebody else
C4_Witness ==
  /\ resp.op = "chat" /\ resp.status = 200 /\ resp.evicted # {}
  /\ resp.from_step = "greeting" /\ resp.uid \in key_set(sessions)

in_handler(th) == th.pc \notin {"idle", "lookup"}

in_reply(th) == th.pc \in {"reply_step", "reply_write"}

\* C5: two concurrent /chat requests of the same user work on the same
\* Conversation object, and the statements of their reply calls do not
\* interleave: while one is between its history append and the end of its
\* step's body, the other is not.
C5_SameUserSerialised ==
  \A t1, t2 \in ThreadIds :
    t1 # t2 /\ in_handler(threads[t1]) /\ in_handler(threads[t2])
            /\ threads[t1].uid = threads[t2].uid =>
      /\ threads[t1].convo = threads[t2].convo
      /\ ~(in_reply(threads[t1]) /\ in_reply(threads[t2]))

\* C6: with concurrent /chat requests the registry bookkeeping behaves as if
\* serialised: no request fails, a key about to be deleted is still in the
\* registry, and it is deleted only while the registry exceeds the limit.
C6_RegistrySerialised ==
  \A t \in ThreadIds :
    /\ threads[t].status # 500
    /\ threads[t].pc = "prune_del" =>
         /\ Head(threads[t].victims) \in key_set(sessions)
         /\ Len(sessions) > limit

\* C7: a request writes at most one lead; the request that moves a dialogue
\* to done is the one that writes it; only the requests that reach the
\* summary (from the common questions or from the domain input) write one;
\* a request received in step done writes none.
C7_OneLeadWritePerCompletion ==
  resp.op = "chat" =>
    /\ resp.lead_writes \in {0, 1}
    /\ (resp.to_step = "done" /\ resp.from_step # "done" => resp.lead_writes = 1)
    /\ (resp.lead_writes = 1 => /\ resp.from_step \in {"common_questions", "domain_input"}
                                /\ resp.to_step \in {"summary", "done"})
    /\ (resp.from_step = "done" => resp.lead_writes = 0)

\* a message that does not restart has been received in step done
C7_Witness ==
  /\ resp.op = "chat" /\ resp.from_step = "done" /\ resp.to_step = "done"
  /\ resp.text = "Login and Payments" /\ resp.lead_writes = 0

\* C8: whatever fails in the lead write (opening the database session, add
\* or commit), the request that reaches the summary returns the summary with
\* its cost and leaves the step done.
C8_LeadFailureSwallowed ==
  resp.op = "chat" /\ resp.lead_writes > 0 /\ resp.lead_outcome # "ok" =>
    /\ resp.raised = None
    /\ resp.reply.text[1] = "summary"
    /\ resp.to_step = "done"

answer_keys(s) == DOMAIN s \ {"step", "name", "history"}

category_answers(s) ==
  {s[k] : k \in {"cat_q_0", "cat_q_1", "cat_q_2", "cat_q_3"} \cap DOMAIN s}

common_answers(s) ==
  {s[k] : k \in {"common_q_0", "common_q_1", "common_q_2", "common_q_3",
                 "common_q_4"} \cap DOMAIN s}

\* an app whose feature answer names login and payments, every other answer
\* being "No" (no logo, no urgent timeline, no domain), greeted with "hi"
app_login_payment_dialogue(s) ==
  /\ Get(s, "project", None) = "app"
  /\ Get(s, "cat_q_2", None) = "Login and Payments"
  /\ category_answers(s) = {"Login and Payments", "No"}
  /\ common_answers(s) = {"No"}
  /\ s["history"][1].text = "hi"

\* C9: the summary of an app with login and payment features, no logo and
\* no urgent timeline quotes 50000 + 1500 + 2500 + 2000 = 56000.
C9_AppLoginPaymentCost ==
  resp.op = "chat" /\ resp.to_step = "done" /\ resp.from_step # "done"
    /\ app_login_payment_dialogue(conv(resp.uid)) =>
      resp.reply.text[Len(resp.reply.text)] = 56000

answers_of(s) == [k \in answer_keys(s) |-> s[k]]

\* C10: two finished dialogues with identical answers (project, subtype,
\* category and common answers, domain) have the same estimate, whatever
\* their names and histories.
C10_CostOfAnswersOnly ==
  \A u1, u2 \in key_set(sessions) :
    /\ conv(u1)["step"] = "done" /\ conv(u2)["step"] = "done"
    /\ answers_of(conv(u1)) = answers_of(conv(u2))
    => estimate_price_inr(conv(u1)) = estimate_price_inr(conv(u2))

\* C11: a /chat request with a blank text is answered 400 with a reply that
\* asks for text, whatever its uid, and leaves the registry, every session
\* and the snapshot file as they were.
C11_BlankTextRejected ==
  [][resp'.op = "chat" /\ resp'.status = 400 =>
       /\ resp'.reply = [text |-> <<"Please send some text!">>]
       /\ sessions' = sessions
       /\ heap' = heap
       /\ file' = file]_vars

\* a blank text has been rejected for a user who has a session
C11_Witness ==
  /\ resp.op = "chat" /\ resp.status = 400
  /\ resp.uid \in key_set(sessions)
  /\ Get(conv(resp.uid), "step", "greeting") = "category_questions"

\* the entries of the users other than uid, in registry order, with their states
other_entries(ss, h, uid) ==
  [n \in 1..Len(SelectSeq(ss, LAMBDA item : item.uid # uid)) |->
     [uid |-> SelectSeq(ss, LAMBDA item : item.uid # uid)[n].uid,
      state |-> h[SelectSeq(ss, LAMBDA item : item.uid # uid)[n].convo]]]

first_message_state(st, text) ==
  /\ DOMAIN st = {"step", "name", "history"}
  /\ st["step"] = "project_type"
  /\ st["history"] = <<[from |-> "user", text |-> text]>>

C13_SessionsIndependent ==
  [][resp'.op = "chat" /\ resp'.status = 200 =>
       \A u \in key_set(sessions) \ {resp'.uid} :
         IF u \in key_set(sessions')
           THEN heap'[sessions_get(sessions', u)] = heap[sessions_get(sessions, u)]
         ELSE u \in resp'.evicted]_vars

\* a request of one user has been answered while another user, further in
\* the dialogue, keeps a session
C13_Witness ==
  /\ resp.op = "chat" /\ resp.status = 200 /\ resp.to_step = "project_type"
  /\ \E u \in key_set(sessions) \ {resp.uid} :
       Get(conv(u), "step", "greeting") = "category_questions"

CategoryOrder == <<"website", "app", "bot", "automation">>

terms_of(k) == {SYNONYMS[k][n] : n \in 1..Len(SYNONYMS[k])} \cup {k}

\* the categories one of whose terms is contained in t or is similar to it
matching_categories(t) ==
  {n \in 1..Len(CategoryOrder) :
     \E v \in terms_of(CategoryOrder[n]) :
       contains_chars(t, v) \/ similarity_above_threshold(t, v)}

category_is_first_match(r, matching) ==
  /\ r \in {"website", "app", "bot", "automation", "unknown"}
  /\ r \notin {"yes", "no"}
  /\ r = "unknown" <=> matching = {}
  /\ \A n \in 1..Len(CategoryOrder) :
       r = CategoryOrder[n] <=> n \in matching /\ \A m \in matching : n <= m

\* C14: detect_category returns the first of website, app, bot, automation
\* one of whose terms (the name or a synonym) is contained in the normalised
\* text or similar to it above 0.7, "unknown" when there is none, and never
\* "yes" or "no".
C14_FirstCategoryWins ==
  resp.op = "detect_category" =>
    With(matching_categories(normalize_chars(resp.text)),
         LAMBDA matching : category_is_first_match(resp.reply, matching))

\* "Automation" has been classified: it matches bot (by its synonym) and
\* automation (by its name), and bot comes first
C14_Witness ==
  resp.op = "detect_category" /\ resp.text = "Automation" /\ resp.reply = "bot"

has_term(k, t) == \E v \in terms_of(k) : contains_chars(t, v)

\* C15: detect_yes_no returns "yes" for every text holding a yes term, a no
\* term besides or not, "no" for a text holding a no term and no yes term,
\* and None exactly for the texts holding neither.
C15_YesBeforeNo ==
  resp.op = "detect_yes_no" =>
    /\ has_term("yes", normalize_chars(resp.text)) => resp.reply = "yes"
    /\ resp.reply = "no" <=> /\ has_term("no", normalize_chars(resp.text))
                             /\ ~has_term("yes", normalize_chars(resp.text))
    /\ resp.reply = None <=> /\ ~has_term("yes", normalize_chars(resp.text))
                             /\ ~has_term("no", normalize_chars(resp.text))

\* a text with a no term before a yes term has been classified
C15_Witness ==
  resp.op = "detect_yes_no" /\ resp.text = "never ok" /\ resp.reply = "yes"

\* C16: the probe answers available = TRUE exactly when the lookup fails,
\* whatever the failure (resolver error, timeout, malformed name), and FALSE
\* when the name resolves; /domaincheck with a domain answers 200 with one
\* entry for each requested TLD, whatever the lookups do.
C16_ProbeFailureMeansAvailable ==
  /\ resp.op = "check_domain" =>
       /\ resp.raised = None
       /\ resp.reply = (gethostbyname(resp.text, resp.answers[1]) # "resolves")
  /\ resp.op = "domaincheck" /\ resp.status # 400 =>
       /\ resp.status = 200
       /\ "domains" \in DOMAIN resp.reply
       /\ Len(resp.reply.domains) = Len(resp.tlds)
       /\ \A n \in 1..Len(resp.tlds) :
            /\ resp.reply.domains[n].tld = resp.tlds[n]
            /\ resp.reply.domains[n].available =
                 (gethostbyname(resp.base \o resp.tlds[n], resp.answers[n]) # "resolves")

\* the place of a step in the fixed order of the dialogue
StepRank(step) ==
  CASE step = "greeting"           -> 0
    [] step = "project_type"       -> 1
    [] step = "website_subtype"    -> 2
    [] step = "category_questions" -> 3
    [] step = "common_questions"   -> 4
    [] step = "domain_input"       -> 5
    [] step = "summary"            -> 6
    [] step = "done"               -> 7

\* the message of request r was appended to the history of state `before`
\* and no key of it was dropped
recorded_as_answer(before, after, r) ==
  /\ DOMAIN before \subseteq DOMAIN after
  /\ after["history"] = Append(before["history"], [from |-> "user", text |-> r.text])

\* C17: no reply moves the step to an earlier stage of greeting,
\* project_type, website_subtype, category_questions, common_questions,
\* domain_input, summary, done, except a restart keyword received in the step
\* done; a restart keyword received in any other step is appended to the
\* history like every message and clears nothing.
C17_StepsOnlyForward ==
  [][resp'.op = "chat" /\ resp'.status = 200 =>
       /\ StepRank(resp'.to_step) >= StepRank(resp'.from_step) \/ restart_request(resp')
       /\ /\ has_restart_keyword(normalize(resp'.text))
          /\ resp'.from_step # "done"
          /\ resp'.uid \in key_set(sessions) /\ resp'.in_registry
          => recorded_as_answer(heap[sessions_get(sessions, resp'.uid)],
                                heap'[sessions_get(sessions', resp'.uid)], resp')]_vars

mentions_budget(text) == contains(normalize(text), "budget")

\* C18: a message that mentions "budget", received in a step other than
\* budget and summary, moves the dialogue to the step budget and is not
\* taken as the answer to the current question.
C18_BudgetShortCircuit ==
  /\ resp.op = "chat" /\ resp.status = 200
  /\ resp.from_step \notin {"budget", "summary"}
  /\ mentions_budget(resp.text)
  => resp.to_step = "budget"

\* the request recorded in r answers the question "Do you already own a
\* domain name?" of the dialogue state `before` with a text that is neither
\* a yes nor a no
domain_question_unanswered(before, r) ==
  /\ r.op = "chat" /\ r.status = 200
  /\ r.from_step = "common_questions"
  /\ Get(before, "c_index", 0) = DomainQuestion
  /\ detect_yes_no(normalize(r.text)) = None

\* C19: when the answer to the domain question (common question 4) is
\* neither a yes nor a no, the step stays common_questions at index 4, no
\* has_domain is recorded, and no summary is produced.
C19_UnansweredDomainQuestionAsksAgain ==
  [][/\ resp'.uid \in key_set(sessions) /\ resp'.in_registry
     /\ domain_question_unanswered(heap[sessions_get(sessions, resp'.uid)], resp')
     => /\ resp'.to_step = "common_questions"
        /\ Get(heap'[sessions_get(sessions', resp'.uid)], "c_index", 0) = DomainQuestion
        /\ ~Has(heap'[sessions_get(sessions', resp'.uid)], "has_domain")
        /\ resp'.lead_writes = 0]_vars

\* the keys reply writes for the step, the visitor, the messages and the
\* answers to the questions
questionnaire_keys ==
  {"step", "name", "history", "project", "subtype", "q_index", "c_index",
   "has_domain", "domain_name", "cat_q_0", "cat_q_1", "cat_q_2", "cat_q_3",
   "common_q_0", "common_q_1", "common_q_2", "common_q_3", "common_q_4"}

\* C20: a dialogue that is done and holds a domain name also holds, under a
\* key of its own, the availability the probe found for that name.
C20_DomainAvailabilityRecorded ==
  \A n \in 1..Len(sessions) :
    LET st == heap[sessions[n].convo]
    IN Get(st, "step", "greeting") = "done" /\ Has(st, "domain_name")
         => DOMAIN st \ questionnaire_keys # {}

\* the history of the dialogue of uid in the registry ss and heap h, empty
\* when uid has no session yet
history_of(ss, h, uid) ==
  IF uid \in key_set(ss) THEN Get(h[sessions_get(ss, uid)], "history", <<>>) ELSE <<>>

is_prefix(a, b) == Len(a) <= Len(b) /\ SubSeq(b, 1, Len(a)) = a

\* C21: every reply other than a restart keeps the entries of history as
\* they were and in order and appends the exchange, the message of the user
\* and the reply sent back: two entries for each message.
C21_HistoryRecordsExchanges ==
  [][/\ resp'.op = "chat" /\ resp'.status = 200 /\ resp'.in_registry
     /\ ~restart_request(resp')
     => With(history_of(sessions, heap, resp'.uid), LAMBDA before :
        With(history_of(sessions', heap', resp'.uid), LAMBDA after :
          /\ is_prefix(before, after)
          /\ Len(after) = Len(before) + 2
          /\ after[Len(before) + 1] = [from |-> "user", text |-> resp'.text]
          /\ after[Len(before) + 2]["from"] # "user"))]_vars

\* the uid -> state mapping of a registry ss over the heap h
registry_mapping(ss, h) == {<<ss[n].uid, h[ss[n].convo]>> : n \in 1..Len(ss)}

\* C22: after every /chat and /reset answered 200 the registry a restart
\* would load from the snapshot file is the registry in memory: the same
\* uids, each with an equal state.
C22_SnapshotRoundTrip ==
  resp.op \in {"chat", "reset"} /\ resp.status = 200 =>
    registry_mapping(load_sessions(file), load_heap(file))
      = registry_mapping(sessions, heap)

CatKeys == <<"cat_q_0", "cat_q_1", "cat_q_2", "cat_q_3">>

CommonKeys == <<"common_q_0", "common_q_1", "common_q_2", "common_q_3", "common_q_4">>

\* the first n keys of a sequence of keys
first_keys(ks, n) == {ks[i] : i \in 1..n}

all_keys(ks) == {ks[i] : i \in 1..Len(ks)}

\* the project of st is a category with questions, and a website has one of
\* the four subtypes
valid_project(st) ==
  /\ Get(st, "project", None) \in {"website", "app", "automation", "bot"}
  /\ st["project"] = "website" =>
       Get(st, "subtype", None) \in {"landing", "portfolio", "e-commerce", "corporate"}

\* the question list selected by the project and the subtype of st
selected_questions(st) ==
  IF st["project"] = "website" THEN QUESTION_TREE["website"][st["subtype"]]
  ELSE QUESTION_TREE[st["project"]]

\* st waits for the answer to the question q_index of its list: the index
\* is in range and the questions before it, and no other, have an answer
in_category_questions(st) ==
  /\ valid_project(st)
  /\ Has(st, "q_index")
  /\ st["q_index"] \in 0..(Len(selected_questions(st)) - 1)
  /\ DOMAIN st \cap all_keys(CatKeys) = first_keys(CatKeys, st["q_index"])
  /\ DOMAIN st \cap all_keys(CommonKeys) = {}

\* st waits for the answer to the common question c_index
in_common_questions(st) ==
  /\ valid_project(st)
  /\ Has(st, "c_index")
  /\ st["c_index"] \in 0..4
  /\ DOMAIN st \cap all_keys(CatKeys) = first_keys(CatKeys, Len(selected_questions(st)))
  /\ DOMAIN st \cap all_keys(CommonKeys) = first_keys(CommonKeys, st["c_index"])

\* the reply r asks the question the state st waits at, and the message it
\* answered is stored under the index of the question before
asked_and_stored(st, r) ==
  /\ r.from_step = "category_questions" /\ r.to_step = "category_questions" =>
       /\ r.reply.text = <<selected_questions(st)[st["q_index"] + 1].q>>
       /\ st[CatKeys[st["q_index"]]] = r.text
  /\ r.from_step = "category_questions" /\ r.to_step = "common_questions" =>
       /\ r.reply.text = <<COMMON_FLOW[1].q>>
       /\ st[CatKeys[Len(selected_questions(st))]] = r.text
  /\ r.from_step = "common_questions" /\ r.to_step = "common_questions" =>
       /\ r.reply.text = <<COMMON_FLOW[st["c_index"] + 1].q>>
       /\ st[CommonKeys[st["c_index"]]] = r.text
  /\ r.from_step = "common_questions" /\ r.to_step # "common_questions" =>
       /\ st["c_index"] = DomainQuestion
       /\ st[CommonKeys[DomainQuestion + 1]] = r.text
  /\ r.from_step \in {"project_type", "website_subtype"}
       /\ r.to_step = "category_questions" =>
       /\ st["q_index"] = 0
       /\ r.reply.text = <<selected_questions(st)[1].q>>

\* C23: a dialogue in step category_questions has a project with questions
\* (and a valid subtype when it is a website) and 0 <= q_index < the length
\* of its question list; a dialogue in step common_questions has
\* 0 <= c_index <= 4; the questions are asked in the order of their list,
\* one for each message, and the answer to question i is stored under the
\* key of index i, so that the keys present are those of the questions
\* before the index.
C23_IndexInRange ==
  /\ \A n \in 1..Len(sessions) :
       With(heap[sessions[n].convo], LAMBDA st :
         /\ Get(st, "step", "greeting") = "category_questions" => in_category_questions(st)
         /\ Get(st, "step", "greeting") = "common_questions" => in_common_questions(st))
  /\ resp.op = "chat" /\ resp.status = 200 /\ resp.in_registry =>
       asked_and_stored(conv(resp.uid), resp)

\* the last question of a website's list has been answered and the first
\* common question asked
C23_Witness ==
  /\ resp.op = "chat" /\ resp.from_step = "category_questions"
  /\ resp.to_step = "common_questions"
  /\ Get(conv(resp.uid), "project", None) = "website"
  /\ Get(conv(resp.uid), "subtype", None) = "e-commerce"
  /\ Get(conv(resp.uid), "q_index", 0) = 3

QuestionSteps == {"website_subtype", "category_questions", "common_questions", "domain_input"}

\* the messages a dialogue in state st still takes at most before it is
\* done: one for the subtype, one for each question left of the selected
\* list (the lists of a website all have three), one for each common
\* question left, and one for the domain name
messages_left(st) ==
  With(Get(st, "step", "greeting"), LAMBDA step :
    CASE step = "website_subtype"    -> 1 + 3 + Len(COMMON_FLOW) + 1
      [] step = "category_questions" ->
           (Len(selected_questions(st)) - st["q_index"]) + Len(COMMON_FLOW) + 1
      [] step = "common_questions"   -> (Len(COMMON_FLOW) - st["c_index"]) + 1
      [] step = "domain_input"       -> 1
      [] step = "done"               -> 0
      [] OTHER                       -> -1)

\* C24: every message received in step website_subtype, category_questions,
\* common_questions or domain_input, whatever its text, leaves the dialogue
\* in one of these steps or in done, with fewer messages left before done
\* than before it: at most 1 + the length of the question list + 5 + 1
\* messages in all, and no question asked again.
C24_BoundedCompletion ==
  [][/\ resp'.op = "chat" /\ resp'.status = 200 /\ resp'.in_registry
     /\ resp'.from_step \in QuestionSteps
     => /\ resp'.to_step \in QuestionSteps \cup {"done"}
        /\ messages_left(heap'[sessions_get(sessions', resp'.uid)]) >= 0
        /\ messages_left(heap'[sessions_get(sessions', resp'.uid)])
             < messages_left(heap[sessions_get(sessions, resp'.uid)])]_vars

\* the category each quick reply of the project question names
OptionCategory ==
  [Website |-> "website", App |-> "app", Automation |-> "automation", Bot |-> "bot"]

\* C25: each option offered with the project question (Website, App,
\* Automation, Bot), sent back as the message, is recorded as its own
\* category: Website leads to the subtype question, and App, Automation and
\* Bot lead to the first question of the list of app, automation and bot.
C25_QuickReplySelectsOwnCategory ==
  /\ resp.op = "chat" /\ resp.status = 200 /\ resp.in_registry
  /\ resp.from_step = "project_type"
  /\ resp.text \in {ProjectOptions[n] : n \in 1..Len(ProjectOptions)}
  => /\ Get(conv(resp.uid), "project", None) = OptionCategory[resp.text]
     /\ IF resp.text = "Website" THEN resp.to_step = "website_subtype"
        ELSE /\ resp.to_step = "category_questions"
             /\ resp.reply.text = <<QUESTION_TREE[OptionCategory[resp.text]][1].q>>
====
